---- MODULE Spec2Model ----
(***************************************************************************)
(* Sakha.ai browser client: the Localization Manager (class I18n) and the  *)
(* Chat Session Controller (class SakhaAI, static/script.js).              *)
(*                                                                         *)
(* Text is a sequence of tokens: one token per character that a rule of    *)
(* the code inspects (" ", "\n", "-", "*", "#", ...), one token per piece  *)
(* of plain text, and one token per markup tag that formatMessage inserts. *)
(* A key path is the sequence of its segments; KeyString gives the dotted  *)
(* string that key.split('.') takes apart.                                 *)
(***************************************************************************)
EXTENDS Naturals, Sequences, FiniteSets

VARIABLES
    currentLanguage,  \* I18n.currentLanguage
    translations,     \* I18n.translations (the Translation Table)
    storage,          \* localStorage['sakha-language'], "none" when absent
    storageWrites,    \* history: codes written by localStorage.setItem
    events,           \* history: the languageChanged events dispatched, each with
                      \* the setLanguage call that dispatched it
    loads,            \* translation fetches in flight
    selectorValue,    \* value shown by #language-selector
    docTitle,         \* document.title
    constructed,      \* DOMContentLoaded has run: the SakhaAI object exists
    isConnected,      \* SakhaAI.isConnected
    healthPending,    \* the /api/health fetch is in flight
    statusText,       \* #status-text textContent
    dotDisconnected,  \* #status-dot carries class 'disconnected'
    sendDisabled,     \* #send-button disabled
    inputValue,       \* #message-input value
    placeholder,      \* #message-input placeholder
    currentMode,      \* SakhaAI.currentMode
    activeButtons,    \* mode buttons carrying class 'active'
    welcomeHidden,    \* welcome message hidden, chat container shown
    transcript,       \* children of #messages, in order
    loadingShown,     \* #loading-overlay carries class 'show'
    crisisShown,      \* #crisis-modal carries class 'show'
    chatRequests,     \* /api/chat fetches in flight
    sends,            \* number of accepted sends so far
    langCalls,        \* number of accepted setLanguage calls so far
    answers,          \* history: the /api/chat fetches that have ended, and how
    call,             \* history: the last direct call of t or formatMessage
    earlyReturn       \* history: the handler whose guard made the last call return
                      \* at once ("sendMessage", "setLanguage"), "none" otherwise

vars == <<currentLanguage, translations, storage, storageWrites, events, loads,
          selectorValue, docTitle, constructed, isConnected, healthPending,
          statusText, dotDisconnected, sendDisabled, inputValue, placeholder,
          currentMode, activeButtons, welcomeHidden, transcript, loadingShown,
          crisisShown, chatRequests, sends, langCalls, answers, call,
          earlyReturn>>

i18nVars == <<currentLanguage, translations, storage, storageWrites, events, loads,
              selectorValue, docTitle, langCalls>>

chatVars == <<constructed, isConnected, healthPending, statusText, dotDisconnected,
              sendDisabled, inputValue, placeholder, currentMode, activeButtons,
              welcomeHidden, transcript, loadingShown, crisisShown, chatRequests,
              sends>>

----------------------------------------------------------------------------
(* Bounds *)

\* requests the user starts in one session: accepted sends plus accepted
\* language changes
MaxRequests == 2
\* length of the texts formatMessage is applied to in SpecFmt
MaxLen == 7
\* length of the key paths t is applied to in SpecT
MaxKeyLen == 3

----------------------------------------------------------------------------
(* Text helpers *)

Last(s) == s[Len(s)]

StartsWith(s, p) == Len(s) >= Len(p) /\ SubSeq(s, 1, Len(p)) = p

Drop(s, n) == SubSeq(s, n + 1, Len(s))

WhiteSpace == {" ", "\n", "\t"}

RECURSIVE TrimStart(_)
TrimStart(s) ==
    IF s # <<>> /\ Head(s) \in WhiteSpace THEN TrimStart(Tail(s)) ELSE s

RECURSIVE TrimEnd(_)
TrimEnd(s) ==
    IF s # <<>> /\ Last(s) \in WhiteSpace THEN TrimEnd(SubSeq(s, 1, Len(s) - 1)) ELSE s

\* String.prototype.trim
Trim(s) == TrimEnd(TrimStart(s))

\* the dotted string of a key path
RECURSIVE KeyString(_)
KeyString(keys) ==
    IF Len(keys) <= 1 THEN keys
    ELSE <<Head(keys), ".">> \o KeyString(Tail(keys))

----------------------------------------------------------------------------
(* Localization Manager: translation tables and t *)

\* JSON values: a string leaf, a nested mapping, or null
Str(text) == [kind |-> "str", val |-> text]
Obj(fields) == [kind |-> "obj", fields |-> fields]
Null == [kind |-> "null"]
EmptyTable == Obj([k \in {} |-> Null])

\* the walk of t over the segments of key; value is what the walk has reached
RECURSIVE Walk(_, _, _)
Walk(value, keys, key) ==
    IF keys = <<>>
    THEN value
    ELSE IF value.kind = "obj" /\ Head(keys) \in DOMAIN value.fields
         THEN Walk(value.fields[Head(keys)], Tail(keys), key)
         ELSE Str(KeyString(key))

\* I18n.t(key) with the default params = {}: the {{name}} replacement then
\* puts every match back (params[param] || match), so a string leaf is
\* returned as it is; a path that ends on a non-string returns that value
T(table, key) == Walk(table, key, key)

\* what a DOM text property shows for a value returned by t
Shown(value) == IF value.kind = "str" THEN value.val ELSE <<"[object Object]">>

----------------------------------------------------------------------------
(* Chat Session Controller: formatMessage *)

\* . of a JavaScript regular expression matches anything but a line terminator
NoNewline(s, from, to) == \A k \in from..to : s[k] # "\n"

\* the positions j of s at which the delimiter d starts, with only
\* non-newline characters before them
CloseAt(s, d) ==
    {j \in 1..Len(s) : StartsWith(Drop(s, j - 1), d) /\ NoNewline(s, 1, j - 1)}

Min(S) == CHOOSE x \in S : \A y \in S : x <= y
Max(S) == CHOOSE x \in S : \A y \in S : x >= y

\* s.replace(/d(.*?)d/g, open $1 close) for a delimiter d
RECURSIVE ReplaceDelim(_, _, _, _)
ReplaceDelim(s, d, open, close) ==
    IF s = <<>> THEN <<>>
    ELSE IF StartsWith(s, d) /\ CloseAt(Drop(s, Len(d)), d) # {}
         THEN LET rest == Drop(s, Len(d))
                  j == Min(CloseAt(rest, d))
              IN  <<open>> \o SubSeq(rest, 1, j - 1) \o <<close>>
                  \o ReplaceDelim(Drop(rest, j + Len(d) - 1), d, open, close)
         ELSE <<Head(s)>> \o ReplaceDelim(Tail(s), d, open, close)

\* s.replace(/\n/g, '<br>')
RECURSIVE ReplaceNewlines(_)
ReplaceNewlines(s) ==
    IF s = <<>> THEN <<>>
    ELSE <<IF Head(s) = "\n" THEN "<br>" ELSE Head(s)>> \o ReplaceNewlines(Tail(s))

\* the characters [^\s<>] of the URL pattern; an inserted tag starts with <
Tags == {"<strong>", "</strong>", "<em>", "</em>", "<br>", "<hr>", "<h4>", "</h4>",
         "<h3>", "</h3>", "<li>", "</li>", "<ul>", "</ul>", "<a>", "</a>"}
UrlChar(c) == c \notin WhiteSpace /\ c \notin {"<", ">"} /\ c \notin Tags

RECURSIVE RunLength(_)
RunLength(s) == IF s # <<>> /\ UrlChar(Head(s)) THEN 1 + RunLength(Tail(s)) ELSE 0

\* length of the match of /https?:\/\/[^\s<>]+/ at the start of s, 0 if none
UrlMatch(s) ==
    LET scheme == IF StartsWith(s, <<"h", "t", "t", "p", "s", ":", "/", "/">>) THEN 8
                  ELSE IF StartsWith(s, <<"h", "t", "t", "p", ":", "/", "/">>) THEN 7
                  ELSE 0
    IN  IF scheme > 0 /\ RunLength(Drop(s, scheme)) > 0
        THEN scheme + RunLength(Drop(s, scheme)) ELSE 0

\* s.replace(/https?:\/\/[^\s<>]+/g, '<a href="$&" ...>$&</a>'); the token
\* "<a>" stands for the opening tag, whose href repeats the matched text
RECURSIVE ReplaceUrls(_)
ReplaceUrls(s) ==
    IF s = <<>> THEN <<>>
    ELSE IF UrlMatch(s) > 0
         THEN <<"<a>">> \o SubSeq(s, 1, UrlMatch(s)) \o <<"</a>">>
              \o ReplaceUrls(Drop(s, UrlMatch(s)))
         ELSE <<Head(s)>> \o ReplaceUrls(Tail(s))

\* s.replace(/---/g, '<hr>')
RECURSIVE ReplaceRules(_)
ReplaceRules(s) ==
    IF s = <<>> THEN <<>>
    ELSE IF StartsWith(s, <<"-", "-", "-">>)
         THEN <<"<hr>">> \o ReplaceRules(Drop(s, 3))
         ELSE <<Head(s)>> \o ReplaceRules(Tail(s))

\* number of characters from the start of s to the end of its line
RECURSIVE LineLength(_)
LineLength(s) == IF s # <<>> /\ Head(s) # "\n" THEN 1 + LineLength(Tail(s)) ELSE 0

\* s.replace(/^prefix(.*$)/gm, open $1 close): ^ matches at the start of the
\* text and after a line terminator, $ at the end of a line
RECURSIVE ReplaceLines(_, _, _, _, _)
ReplaceLines(s, atStart, prefix, open, close) ==
    IF s = <<>> THEN <<>>
    ELSE IF atStart /\ StartsWith(s, prefix)
         THEN LET n == LineLength(s)
              IN  <<open>> \o SubSeq(s, Len(prefix) + 1, n) \o <<close>>
                  \o ReplaceLines(Drop(s, n), FALSE, prefix, open, close)
         ELSE <<Head(s)>> \o ReplaceLines(Tail(s), Head(s) = "\n", prefix, open, close)

\* end of the match of /<li>.*<\/li>/ at the start of s (greedy: the last
\* </li> of the line), 0 if none
ItemEnd(s) ==
    IF s # <<>> /\ Head(s) = "<li>"
       /\ {j \in 2..LineLength(s) : s[j] = "</li>"} # {}
    THEN Max({j \in 2..LineLength(s) : s[j] = "</li>"})
    ELSE 0

RECURSIVE SpaceLength(_)
SpaceLength(s) ==
    IF s # <<>> /\ Head(s) \in WhiteSpace THEN 1 + SpaceLength(Tail(s)) ELSE 0

\* length of the match of (\s*<li>.*<\/li>)* at the start of s
RECURSIVE MoreItems(_)
MoreItems(s) ==
    LET sp == SpaceLength(s)
        e == ItemEnd(Drop(s, sp))
    IN  IF e > 0 THEN sp + e + MoreItems(Drop(s, sp + e)) ELSE 0

\* s.replace(/(<li>.*<\/li>)(\s*<li>.*<\/li>)*/g, '<ul>$&</ul>')
RECURSIVE WrapLists(_)
WrapLists(s) ==
    IF s = <<>> THEN <<>>
    ELSE IF ItemEnd(s) > 0
         THEN LET n == ItemEnd(s) + MoreItems(Drop(s, ItemEnd(s)))
              IN  <<"<ul>">> \o SubSeq(s, 1, n) \o <<"</ul>">> \o WrapLists(Drop(s, n))
         ELSE <<Head(s)>> \o WrapLists(Tail(s))

\* the bullet character U+2022 of the first list pattern
Bullet == "U+2022"

\* SakhaAI.formatMessage: the replacements in the order the code chains them
formatMessage(content) ==
    LET bold    == ReplaceDelim(content, <<"*", "*">>, "<strong>", "</strong>")
        italic  == ReplaceDelim(bold, <<"*">>, "<em>", "</em>")
        breaks  == ReplaceNewlines(italic)
        links   == ReplaceUrls(breaks)
        rules   == ReplaceRules(links)
        h4      == ReplaceLines(rules, TRUE, <<"#", "#", "#", " ">>, "<h4>", "</h4>")
        h3      == ReplaceLines(h4, TRUE, <<"#", "#", " ">>, "<h3>", "</h3>")
        bullets == ReplaceLines(h3, TRUE, <<Bullet, " ">>, "<li>", "</li>")
        dashes  == ReplaceLines(bullets, TRUE, <<"-", " ">>, "<li>", "</li>")
    IN  WrapLists(dashes)

----------------------------------------------------------------------------
(* The page and its collaborators *)

\* language codes offered by the picker that the model exercises
Languages == {"en", "hi"}

\* mode controls of the page (data-mode)
Modes == {"normal", "gita"}

\* key paths the two components resolve
TitleKey == <<"app", "title">>
ErrorKey == <<"app", "error">>
StatusKey(name) == <<"app", "status", name>>
PlaceholderKey(mode) == <<"app", "placeholders", mode>>

\* the string leaf of the translation document of lang for a name
Leaf(lang, name) == Str(<<lang, name>>)

\* /static/languages/<lang>.json: a string-leaf tree holding every key above
Doc(lang) ==
    Obj([a \in {"app"} |->
        Obj([k \in {"title", "error", "status", "placeholders"} |->
            CASE k = "title" -> Leaf(lang, "title")
              [] k = "error" -> Leaf(lang, "error")
              [] k = "status" ->
                    Obj([n \in {"aiReady", "connectedLimited", "disconnected"} |->
                         Leaf(lang, n)])
              [] k = "placeholders" -> Obj([m \in Modes |-> Leaf(lang, m)])])])

\* the JSON body of a non-success answer of the static file server
ErrorBody == Obj([k \in {"detail"} |-> Str(<<"Not Found">>)])

\* what the page shows before any script has written to it
HtmlTitle == <<"html:title">>
HtmlStatus == <<"html:status">>
HtmlPlaceholder == <<"html:placeholder">>
HtmlSelector == "en"

\* navigator.language values, as the parts that split('-') yields
BrowserLanguages == {<<"ta", "IN">>}

\* what localStorage holds under 'sakha-language' when the page opens: the
\* session of a user who chose Hindi on an earlier visit
SavedLanguages == {"hi"}

\* what the user can have in the message box
InputValues == {<<>>, <<" ">>, <<" ", "hello", " ">>}

\* response texts of /api/chat
Responses == {<<"-", " ", "reply">>}

\* how a translation fetch can end
PrimaryOutcomes == {"ok", "notOk", "error"}
\* (the fallback reads the body of a non-success answer too: it may parse as
\* JSON or not)
FallbackOutcomes == {"ok", "notOkJson", "notOkText", "error"}

\* how the health fetch can end: a JSON body, or a failure of fetch or json()
HealthOutcomes ==
    {[status |-> "healthy", ai_enabled |-> TRUE],
     [status |-> "healthy", ai_enabled |-> FALSE],
     [status |-> "degraded", ai_enabled |-> FALSE],
     [status |-> "error", ai_enabled |-> FALSE]}

\* how the chat fetch can end
ChatFailures == {"httpError", "networkError"}

----------------------------------------------------------------------------
(* Localization Manager *)

\* I18n.detectLanguage
detectLanguage(savedLang, browserLang) ==
    IF savedLang # "none" THEN savedLang
    ELSE IF Head(browserLang) \in {"en", "hi", "fr", "es"} THEN Head(browserLang)
    ELSE "en"

\* I18n.applyTranslations with the table it reads: the document title
applyTitle(table) == Shown(T(table, TitleKey))

\* SakhaAI.updatePlaceholders with the table and the mode it reads
updatePlaceholders(table, mode) == Shown(T(table, PlaceholderKey(mode)))

\* the fetch that loadTranslations issues for the current language; id 0 is
\* the constructor's call, id n the n-th accepted setLanguage call
NewLoad(id, lang) == [id |-> id, lang |-> lang, stage |-> "primary"]

\* mutant: setLanguage without its first line
SameLanguageNever(code) == FALSE

\* the first line of setLanguage: the call returns at once
SameLanguage(code) == currentLanguage = code

\* I18n.setLanguage behind the picker's change listener (SakhaAI.changeLanguage):
\* the user has moved the picker to code
setLanguage(code) ==
    /\ constructed
    /\ code # selectorValue
    /\ ~SameLanguage(code) => sends + langCalls < MaxRequests
    /\ selectorValue' = code
    /\ IF SameLanguage(code)
       THEN /\ UNCHANGED <<currentLanguage, translations, storage, storageWrites,
                           events, loads, docTitle, langCalls>>
            /\ earlyReturn' = "setLanguage"
       ELSE /\ currentLanguage' = code
            /\ storage' = code
            /\ storageWrites' = Append(storageWrites, code)
            /\ loads' = loads \cup {NewLoad(langCalls + 1, code)}
            /\ langCalls' = langCalls + 1
            /\ earlyReturn' = "none"
            /\ UNCHANGED <<translations, events, docTitle>>
    /\ UNCHANGED <<chatVars, answers, call>>

\* mutant: the event dispatched by loadTranslations itself, for every caller
DispatchesEventAlways(ld) == TRUE

\* whether the caller that awaited the load ld goes on to dispatch
\* languageChanged: setLanguage does, the constructor does not
DispatchesEvent(ld) == ld.id # 0

\* mutant: an answer for a language that is no longer the current one is
\* dropped, its table never assigned
SettleCurrentOnly(ld, table, applied) ==
    /\ loads' = loads \ {ld}
    /\ translations' = IF ld.lang = currentLanguage THEN table ELSE translations
    /\ IF applied
       THEN docTitle' = applyTitle(translations') /\ selectorValue' = currentLanguage
       ELSE UNCHANGED <<docTitle, selectorValue>>
    /\ IF DispatchesEvent(ld)
       THEN /\ events' = Append(events, [call |-> ld.id, language |-> ld.lang])
            /\ placeholder' = IF constructed
                              THEN updatePlaceholders(translations', currentMode)
                              ELSE placeholder
       ELSE UNCHANGED <<events, placeholder>>

\* the end of loadTranslations / loadFallbackTranslations for the fetch ld:
\* the table is replaced or kept, translations are applied, and the
\* setLanguage call that awaited the load dispatches languageChanged, which
\* the controller's listener answers with updatePlaceholders
Settle(ld, table, applied) ==
    /\ loads' = loads \ {ld}
    /\ translations' = table
    /\ IF applied
       THEN docTitle' = applyTitle(table) /\ selectorValue' = currentLanguage
       ELSE UNCHANGED <<docTitle, selectorValue>>
    /\ IF DispatchesEvent(ld)
       THEN /\ events' = Append(events, [call |-> ld.id, language |-> ld.lang])
            /\ placeholder' = IF constructed
                              THEN updatePlaceholders(table, currentMode)
                              ELSE placeholder
       ELSE UNCHANGED <<events, placeholder>>

\* what no answer to a translation fetch touches
loadFrame ==
    <<currentLanguage, storage, storageWrites, langCalls, constructed, isConnected,
      healthPending, statusText, dotDisconnected, sendDisabled, inputValue,
      currentMode, activeButtons, welcomeHidden, transcript, loadingShown,
      crisisShown, chatRequests, sends, answers, call>>

\* I18n.loadTranslations: the answer to the fetch of the language file
loadTranslations(ld, outcome) ==
    /\ ld \in loads
    /\ ld.stage = "primary"
    /\ IF outcome = "ok"
       THEN Settle(ld, Doc(ld.lang), TRUE)
       ELSE /\ loads' = (loads \ {ld}) \cup {[ld EXCEPT !.stage = "fallback"]}
            /\ UNCHANGED <<translations, docTitle, selectorValue, events, placeholder>>
    /\ earlyReturn' = "none"
    /\ UNCHANGED loadFrame

\* I18n.loadFallbackTranslations: the answer to the fetch of en.json; the
\* body of any answer that parses as JSON becomes the table
loadFallbackTranslations(ld, outcome) ==
    /\ ld \in loads
    /\ ld.stage = "fallback"
    /\ CASE outcome = "ok" -> Settle(ld, Doc("en"), TRUE)
         [] outcome = "notOkJson" -> Settle(ld, ErrorBody, TRUE)
         [] outcome \in {"notOkText", "error"} -> Settle(ld, translations, FALSE)
    /\ earlyReturn' = "none"
    /\ UNCHANGED loadFrame

----------------------------------------------------------------------------
(* Chat Session Controller *)

\* a child of #messages; sid is history: the send the entry belongs to
Entry(sender, isError, content, sid) ==
    [sender |-> sender, isError |-> isError, content |-> content, sid |-> sid]

\* mutant: the new node inserted before the first child
addMessageFirst(content, sender, isError, sid) ==
    <<Entry(sender, isError,
            IF sender = "assistant" THEN formatMessage(content) ELSE content,
            sid)>> \o transcript

\* mutant: the error styling never applied
addMessageUnstyled(content, sender, isError, sid) ==
    Append(transcript,
           Entry(sender, FALSE,
                 IF sender = "assistant" THEN formatMessage(content) ELSE content,
                 sid))

\* mutant: the new node put in the place of the last child
addMessageInPlace(content, sender, isError, sid) ==
    (IF transcript = <<>> THEN <<>> ELSE SubSeq(transcript, 1, Len(transcript) - 1))
    \o <<Entry(sender, isError,
               IF sender = "assistant" THEN formatMessage(content) ELSE content,
               sid)>>

\* SakhaAI.addMessage: assistant content goes through formatMessage
addMessage(content, sender, isError, sid) ==
    Append(transcript,
           Entry(sender, isError,
                 IF sender = "assistant" THEN formatMessage(content) ELSE content,
                 sid))

\* the DOMContentLoaded listener: new SakhaAI()
DOMContentLoaded ==
    /\ ~constructed
    /\ constructed' = TRUE
    /\ isConnected' = FALSE
    /\ currentMode' = "normal"
    /\ healthPending' = TRUE
    /\ placeholder' = updatePlaceholders(translations, "normal")
    /\ earlyReturn' = "none"
    /\ UNCHANGED <<statusText, dotDisconnected, sendDisabled, inputValue, activeButtons,
                   welcomeHidden, transcript, loadingShown, crisisShown, chatRequests,
                   sends, answers, call, i18nVars>>

\* mutant: the listener looks at the text only
inputListenerTextOnly(value) ==
    /\ constructed
    /\ value # inputValue
    /\ inputValue' = value
    /\ sendDisabled' = ~(Trim(value) # <<>>)
    /\ earlyReturn' = "none"
    /\ UNCHANGED <<constructed, isConnected, healthPending, statusText, dotDisconnected,
                   placeholder, currentMode, activeButtons, welcomeHidden, transcript,
                   loadingShown, crisisShown, chatRequests, sends, answers, call,
                   i18nVars>>

\* the 'input' listener of the message box, after the user changed its value
inputListener(value) ==
    /\ constructed
    /\ value # inputValue
    /\ inputValue' = value
    /\ sendDisabled' = (~(Trim(value) # <<>>) \/ ~isConnected)
    /\ earlyReturn' = "none"
    /\ UNCHANGED <<constructed, isConnected, healthPending, statusText, dotDisconnected,
                   placeholder, currentMode, activeButtons, welcomeHidden, transcript,
                   loadingShown, crisisShown, chatRequests, sends, answers, call,
                   i18nVars>>

\* SakhaAI.updateConnectionStatus
updateConnectionStatus(connected, aiEnabled) ==
    /\ isConnected' = connected
    /\ dotDisconnected' = ~connected
    /\ statusText' =
          Shown(T(translations,
                  StatusKey(IF connected
                            THEN IF aiEnabled THEN "aiReady" ELSE "connectedLimited"
                            ELSE "disconnected")))
    /\ sendDisabled' = (~connected \/ Trim(inputValue) = <<>>)

\* SakhaAI.checkHealth: the answer to the fetch issued by the constructor
checkHealth(data) ==
    /\ healthPending
    /\ healthPending' = FALSE
    /\ IF data.status = "healthy"
       THEN updateConnectionStatus(TRUE, data.ai_enabled)
       ELSE updateConnectionStatus(FALSE, FALSE)
    /\ earlyReturn' = "none"
    /\ UNCHANGED <<constructed, inputValue, placeholder, currentMode, activeButtons,
                   welcomeHidden, transcript, loadingShown, crisisShown, chatRequests,
                   sends, answers, call, i18nVars>>

\* mutant: the marker added without being removed from the other controls
setModeAdds(mode) ==
    /\ constructed
    /\ currentMode' = mode
    /\ activeButtons' = activeButtons \cup {mode}
    /\ placeholder' = updatePlaceholders(translations, mode)
    /\ earlyReturn' = "none"
    /\ UNCHANGED <<constructed, isConnected, healthPending, statusText, dotDisconnected,
                   sendDisabled, inputValue, welcomeHidden, transcript, loadingShown,
                   crisisShown, chatRequests, sends, answers, call, i18nVars>>

\* SakhaAI.setMode, from the click listener of a mode control
setMode(mode) ==
    /\ constructed
    /\ currentMode' = mode
    /\ activeButtons' = (activeButtons \ Modes) \cup {mode}
    /\ placeholder' = updatePlaceholders(translations, mode)
    /\ earlyReturn' = "none"
    /\ UNCHANGED <<constructed, isConnected, healthPending, statusText, dotDisconnected,
                   sendDisabled, inputValue, welcomeHidden, transcript, loadingShown,
                   crisisShown, chatRequests, sends, answers, call, i18nVars>>

\* mutant: hideLoading leaves the class list as it is
hideLoadingKeeps == loadingShown

\* SakhaAI.showLoading / hideLoading: whether the overlay carries 'show' after
showLoading == TRUE
hideLoading == FALSE

\* mutant: the guard without the connectivity test
SendGuardTextOnly == Trim(inputValue) # <<>>

\* the guard of sendMessage
SendGuard == Trim(inputValue) # <<>> /\ isConnected

\* SakhaAI.sendMessage up to the fetch, from the click listener of the send
\* control (a disabled control fires no click) or from Enter in the message box
sendMessage(via) ==
    /\ constructed
    /\ via = "click" => ~sendDisabled
    /\ SendGuard => sends + langCalls < MaxRequests
    /\ IF SendGuard
       THEN /\ welcomeHidden' = TRUE
            /\ transcript' = addMessage(Trim(inputValue), "user", FALSE, sends + 1)
            /\ inputValue' = <<>>
            /\ sendDisabled' = TRUE
            /\ loadingShown' = showLoading
            /\ chatRequests' = chatRequests \cup
                  {[id |-> sends + 1, message |-> Trim(inputValue),
                    mode |-> currentMode, language |-> currentLanguage]}
            /\ sends' = sends + 1
            /\ earlyReturn' = "none"
       ELSE /\ UNCHANGED <<welcomeHidden, transcript, inputValue, sendDisabled,
                           loadingShown, chatRequests, sends>>
            /\ earlyReturn' = "sendMessage"
    /\ UNCHANGED <<constructed, isConnected, healthPending, statusText, dotDisconnected,
                   placeholder, currentMode, activeButtons, crisisShown, answers, call,
                   i18nVars>>

\* history: how the fetch of the send req.id ended
Answer(req, ok, response) ==
    [id |-> req.id, message |-> req.message, ok |-> ok, response |-> response]

\* mutant: the crisis modal shown after every ok answer
chatSucceededShowsCrisis(req, response, crisis) ==
    /\ req \in chatRequests
    /\ chatRequests' = chatRequests \ {req}
    /\ answers' = answers \cup {Answer(req, TRUE, response)}
    /\ loadingShown' = hideLoading
    /\ transcript' = addMessage(response, "assistant", FALSE, req.id)
    /\ crisisShown' = TRUE
    /\ earlyReturn' = "none"
    /\ UNCHANGED <<constructed, isConnected, healthPending, statusText, dotDisconnected,
                   sendDisabled, inputValue, placeholder, currentMode, activeButtons,
                   welcomeHidden, sends, call, i18nVars>>

\* sendMessage after the fetch: an ok answer with body {response, crisis_detected}
chatSucceeded(req, response, crisis) ==
    /\ req \in chatRequests
    /\ chatRequests' = chatRequests \ {req}
    /\ answers' = answers \cup {Answer(req, TRUE, response)}
    /\ loadingShown' = hideLoading
    /\ transcript' = addMessage(response, "assistant", FALSE, req.id)
    /\ crisisShown' = (crisisShown \/ crisis)
    /\ earlyReturn' = "none"
    /\ UNCHANGED <<constructed, isConnected, healthPending, statusText, dotDisconnected,
                   sendDisabled, inputValue, placeholder, currentMode, activeButtons,
                   welcomeHidden, sends, call, i18nVars>>

\* mutant: the catch block also marks the controller disconnected
chatFailedDisconnects(req, failure) ==
    /\ req \in chatRequests
    /\ chatRequests' = chatRequests \ {req}
    /\ answers' = answers \cup {Answer(req, FALSE, <<>>)}
    /\ loadingShown' = hideLoading
    /\ isConnected' = FALSE
    /\ LET errorMessage == T(translations, ErrorKey)
       IN  transcript' = IF errorMessage.kind = "str"
                         THEN addMessage(errorMessage.val, "assistant", TRUE, req.id)
                         ELSE transcript
    /\ earlyReturn' = "none"
    /\ UNCHANGED <<constructed, healthPending, statusText, dotDisconnected,
                   sendDisabled, inputValue, placeholder, currentMode, activeButtons,
                   welcomeHidden, crisisShown, sends, call, i18nVars>>

\* mutant: the catch block logs the failure and appends nothing
chatFailedSilent(req, failure) ==
    /\ req \in chatRequests
    /\ chatRequests' = chatRequests \ {req}
    /\ answers' = answers \cup {Answer(req, FALSE, <<>>)}
    /\ loadingShown' = hideLoading
    /\ transcript' = transcript
    /\ earlyReturn' = "none"
    /\ UNCHANGED <<constructed, isConnected, healthPending, statusText, dotDisconnected,
                   sendDisabled, inputValue, placeholder, currentMode, activeButtons,
                   welcomeHidden, crisisShown, sends, call, i18nVars>>

\* sendMessage's catch: a non-ok answer or a failure of fetch; formatMessage
\* throws out of the catch block when t hands it a value that is no string
chatFailed(req, failure) ==
    /\ req \in chatRequests
    /\ chatRequests' = chatRequests \ {req}
    /\ answers' = answers \cup {Answer(req, FALSE, <<>>)}
    /\ loadingShown' = hideLoading
    /\ LET errorMessage == T(translations, ErrorKey)
       IN  transcript' = IF errorMessage.kind = "str"
                         THEN addMessage(errorMessage.val, "assistant", TRUE, req.id)
                         ELSE transcript
    /\ earlyReturn' = "none"
    /\ UNCHANGED <<constructed, isConnected, healthPending, statusText, dotDisconnected,
                   sendDisabled, inputValue, placeholder, currentMode, activeButtons,
                   welcomeHidden, crisisShown, sends, call, i18nVars>>

\* the click listeners that hide the crisis modal: its close control, and the
\* modal itself when the click lands on the backdrop
hideCrisisModal(target) ==
    /\ constructed
    /\ crisisShown
    /\ crisisShown' = FALSE
    /\ earlyReturn' = "none"
    /\ UNCHANGED <<constructed, isConnected, healthPending, statusText, dotDisconnected,
                   sendDisabled, inputValue, placeholder, currentMode, activeButtons,
                   welcomeHidden, transcript, loadingShown, chatRequests, sends,
                   answers, call, i18nVars>>

\* SakhaAI.showCrisisModal from the click listener of the crisis button
showCrisisModal ==
    /\ constructed
    /\ crisisShown' = TRUE
    /\ earlyReturn' = "none"
    /\ UNCHANGED <<constructed, isConnected, healthPending, statusText, dotDisconnected,
                   sendDisabled, inputValue, placeholder, currentMode, activeButtons,
                   welcomeHidden, transcript, loadingShown, chatRequests, sends,
                   answers, call, i18nVars>>

----------------------------------------------------------------------------
(* The session *)

\* a direct call of fn with arg, before it has run and after
Calling(fn, arg) == [fn |-> fn, arg |-> arg, done |-> FALSE, result |-> <<>>]
Returned(fn, arg, result) == [fn |-> fn, arg |-> arg, done |-> TRUE, result |-> result]
NoCall == Calling("none", <<>>)

\* the page before any script has run, but for the variables given
Page ==
    /\ selectorValue = HtmlSelector
    /\ docTitle = HtmlTitle
    /\ constructed = FALSE
    /\ isConnected = FALSE
    /\ healthPending = FALSE
    /\ statusText = HtmlStatus
    /\ dotDisconnected = FALSE
    /\ inputValue = <<>>
    /\ placeholder = HtmlPlaceholder
    /\ currentMode = "normal"
    /\ activeButtons = {"normal"}
    /\ welcomeHidden = FALSE
    /\ transcript = <<>>
    /\ loadingShown = FALSE
    /\ crisisShown = FALSE
    /\ chatRequests = {}
    /\ sends = 0
    /\ answers = {}
    /\ storageWrites = <<>>
    /\ events = <<>>
    /\ langCalls = 0
    /\ earlyReturn = "none"

\* the page after i18n.js has run (window.i18n = new I18n()) and before
\* DOMContentLoaded
Init ==
    /\ \E savedLang \in SavedLanguages, browserLang \in BrowserLanguages :
          /\ storage = savedLang
          /\ currentLanguage = detectLanguage(savedLang, browserLang)
    /\ translations = EmptyTable
    /\ loads = {NewLoad(0, currentLanguage)}
    /\ sendDisabled \in BOOLEAN
    /\ call = NoCall
    /\ Page

Next ==
    \/ DOMContentLoaded
    \/ \E value \in InputValues : inputListener(value)
    \/ \E data \in HealthOutcomes : checkHealth(data)
    \/ \E mode \in Modes : setMode(mode)
    \/ \E via \in {"click", "enter"} : sendMessage(via)
    \/ \E req \in chatRequests, response \in Responses, crisis \in BOOLEAN :
          chatSucceeded(req, response, crisis)
    \/ \E req \in chatRequests, failure \in ChatFailures : chatFailed(req, failure)
    \/ \E target \in {"close", "backdrop"} : hideCrisisModal(target)
    \/ showCrisisModal
    \/ \E code \in Languages : setLanguage(code)
    \/ \E ld \in loads, outcome \in PrimaryOutcomes : loadTranslations(ld, outcome)
    \/ \E ld \in loads, outcome \in FallbackOutcomes : loadFallbackTranslations(ld, outcome)

Spec == Init /\ [][Next]_vars

\* the fetch of the send id ends: the promise that sendMessage awaits settles
\* and the request leaves flight; in the session these are the steps
\* chatSucceeded and chatFailed of that request, which have no other guard
Resolve(id) ==
    \E req \in chatRequests :
        /\ req.id = id
        /\ chatRequests' = chatRequests \ {req}

\* the session in which every issued chat request is answered or fails: the
\* browser settles every fetch and runs the continuation of the await
SpecLive == Spec /\ \A id \in 1..MaxRequests : WF_chatRequests(Resolve(id))

----------------------------------------------------------------------------
(* t on its own: every table of a bounded shape, every key path *)

Segments == {"a", "b"}

\* the mappings from some of the segments to the given values
ObjectsOver(children) ==
    {Obj(f) : f \in UNION {[D -> children] : D \in SUBSET Segments}}

\* string-leaf trees two mappings deep; one leaf text reads like a key
LeavesT == {Str(<<"text">>), Str(<<"a">>)}
TablesT == ObjectsOver(LeavesT \cup ObjectsOver(LeavesT))

KeysT == UNION {[1..n -> Segments] : n \in 1..MaxKeyLen}

\* a page whose scripts have settled, holding the given table, about to
\* resolve the given key
InitT ==
    /\ translations \in TablesT
    /\ \E key \in KeysT : call = Calling("t", key)
    /\ currentLanguage = "en"
    /\ storage = "none"
    /\ loads = {}
    /\ sendDisabled = TRUE
    /\ Page

\* window.i18n.t(key)
tCall ==
    /\ call.fn = "t" /\ ~call.done
    /\ call' = Returned("t", call.arg, T(translations, call.arg))
    /\ UNCHANGED <<i18nVars, chatVars, answers, earlyReturn>>

NextT == tCall

SpecT == InitT /\ [][NextT]_vars

----------------------------------------------------------------------------
(* formatMessage on its own: every text of a bounded length *)

FmtAlphabet == {"-", Bullet, " ", "\n", "a"}

TextsFmt == UNION {[1..n -> FmtAlphabet] : n \in 0..MaxLen}

InitFmt ==
    /\ \E content \in TextsFmt : call = Calling("formatMessage", content)
    /\ translations = EmptyTable
    /\ currentLanguage = "en"
    /\ storage = "none"
    /\ loads = {}
    /\ sendDisabled = TRUE
    /\ Page

\* this.formatMessage(content)
fmtCall ==
    /\ call.fn = "formatMessage" /\ ~call.done
    /\ call' = Returned("formatMessage", call.arg, formatMessage(call.arg))
    /\ UNCHANGED <<i18nVars, chatVars, answers, earlyReturn>>

NextFmt == fmtCall

SpecFmt == InitFmt /\ [][NextFmt]_vars

----------------------------------------------------------------------------
(* Properties *)

\* positions of the transcript entries that belong to the send sid
EntriesOf(sid) == {i \in DOMAIN transcript : transcript[i].sid = sid}

\* C1: sendMessage is a no-op whenever its guard fails: a call made while the
\* trimmed input is empty or the controller is not connected appends nothing
\* to the transcript and issues no chat request.
C1_GuardedSendIsNoOp ==
    [][((\E via \in {"click", "enter"} : sendMessage(via))
        /\ (Trim(inputValue) = <<>> \/ ~isConnected))
       => (transcript' = transcript /\ chatRequests' = chatRequests /\ sends' = sends)]_vars

\* sendMessage has just returned at once: the health check reported
\* Disconnected and the message box holds text
C1_Witness ==
    /\ earlyReturn = "sendMessage"
    /\ ~healthPending /\ ~isConnected
    /\ Trim(inputValue) # <<>>

\* C2: every send whose chat request succeeded has exactly two transcript
\* entries, in order: the user's entry, then one non-error assistant entry
\* carrying the (formatted) response text; whatever else happened meanwhile.
C2_SuccessAppendsUserThenAssistant ==
    \A a \in answers :
        a.ok =>
            \E i, j \in EntriesOf(a.id) :
                /\ i < j
                /\ EntriesOf(a.id) = {i, j}
                /\ transcript[i] = Entry("user", FALSE, a.message, a.id)
                /\ transcript[j] =
                      Entry("assistant", FALSE, formatMessage(a.response), a.id)

\* a send has succeeded while another request was outstanding
C2_Witness == (\E a \in answers : a.ok) /\ chatRequests # {}

\* C3: every send whose chat request failed has exactly two transcript
\* entries: the user's entry, then one error-flagged assistant entry, and no
\* assistant entry without the error flag.
C3_FailureAppendsUserThenError ==
    \A a \in answers :
        ~a.ok =>
            \E i, j \in EntriesOf(a.id) :
                /\ i < j
                /\ EntriesOf(a.id) = {i, j}
                /\ transcript[i] = Entry("user", FALSE, a.message, a.id)
                /\ transcript[j].sender = "assistant"
                /\ transcript[j].isError

\* a send has failed while another request was outstanding
C3_Witness == (\E a \in answers : ~a.ok) /\ chatRequests # {}

\* C4: when the health check answers {status: "healthy", ai_enabled: true},
\* the status indicator shows the translation of app.status.aiReady in the
\* active language, and the send control is enabled if the input is non-empty.
C4_AiReadyIsLocalized ==
    [][checkHealth([status |-> "healthy", ai_enabled |-> TRUE])
       => /\ statusText' = Leaf(currentLanguage, "aiReady").val
          /\ (Trim(inputValue') # <<>> => ~sendDisabled')]_vars

\* C5: every accepted setLanguage call writes the persisted code exactly once
\* and dispatches exactly one languageChanged event carrying its code, and
\* not before its reload has settled: each call either still has its fetch
\* in flight or has its one event, never both.
C5_OneWriteOneEventAfterSettle ==
    LET pending == {ld.id : ld \in loads} \ {0}
        fired == {events[i].call : i \in DOMAIN events}
    IN  /\ Len(storageWrites) = langCalls
        /\ langCalls > 0 => storage = Last(storageWrites)
        /\ fired \cap pending = {}
        /\ fired \cup pending = 1..langCalls
        /\ Cardinality(fired) = Len(events)
        /\ \A i \in DOMAIN events :
              events[i].language = storageWrites[events[i].call]

\* a language change has settled through a failed fallback and has its event
C5_Witness ==
    /\ langCalls = 1 /\ loads = {}
    /\ events = <<[call |-> 1, language |-> "en"]>>
    /\ storageWrites = <<"en">>
    /\ translations = EmptyTable

\* C6: setLanguage with the current language changes nothing of the
\* Localization Manager: no fetch, no write, no event, same language and table.
C6_SameLanguageIsNoOp ==
    [][\A code \in Languages :
          (setLanguage(code) /\ code = currentLanguage)
          => UNCHANGED <<currentLanguage, translations, storage, storageWrites,
                         events, loads, langCalls>>]_vars

\* setLanguage has just returned at once
C6_Witness == earlyReturn = "setLanguage" /\ selectorValue = currentLanguage

\* what the segments of a key path lead to in a table; Null when one is missing
RECURSIVE Lookup(_, _)
Lookup(value, keys) ==
    IF keys = <<>> THEN value
    ELSE IF value.kind = "obj" /\ Head(keys) \in DOMAIN value.fields
         THEN Lookup(value.fields[Head(keys)], Tail(keys))
         ELSE Null

\* C7: t(key) returns the leaf when the path resolves to a string, and the
\* key itself in every other case.
C7_NonStringReturnsKey ==
    (call.fn = "t" /\ call.done) =>
        LET leaf == Lookup(translations, call.arg)
        IN  call.result = IF leaf.kind = "str" THEN leaf
                          ELSE Str(KeyString(call.arg))

\* the text t('app.error') stands for: the leaf of the loaded document, the
\* raw key when the table holds none
ErrorText ==
    IF \E lang \in Languages : translations = Doc(lang)
    THEN Leaf(CHOOSE lang \in Languages : translations = Doc(lang), "error").val
    ELSE KeyString(ErrorKey)

\* C8 as stated: once a failed chat request has been handled, the last
\* entry is the localized error string, loading is hidden and the crisis
\* affordance is not shown.
C8_FailureLeavesNoCrisis ==
    [][\A req \in chatRequests, failure \in ChatFailures :
          chatFailed(req, failure)
          => /\ transcript' # <<>>
             /\ Last(transcript').isError
             /\ \E lang \in Languages :
                   Last(transcript').content = formatMessage(Leaf(lang, "error").val)
             /\ ~loadingShown'
             /\ ~crisisShown']_vars

\* C8 as amended: once a failed chat request has been handled, the last
\* entry is the error-flagged assistant entry carrying what t('app.error')
\* resolves to (the localized string, or the raw key when the table has none),
\* loading is hidden, and the crisis affordance is as it was before.
C8_FailureHandled ==
    [][\A req \in chatRequests, failure \in ChatFailures :
          chatFailed(req, failure)
          => /\ transcript' # <<>>
             /\ Last(transcript') =
                   Entry("assistant", TRUE, formatMessage(ErrorText), req.id)
             /\ ~loadingShown'
             /\ crisisShown' = crisisShown]_vars

\* a failure has been handled with the crisis affordance on screen and the
\* table empty: the last entry is the raw key
C8_Witness ==
    /\ transcript # <<>>
    /\ Last(transcript).isError
    /\ Last(transcript).content = KeyString(ErrorKey)
    /\ chatRequests = {}
    /\ ~loadingShown
    /\ crisisShown

\* the lines of a text
RECURSIVE Lines(_)
Lines(s) ==
    IF LineLength(s) = Len(s) THEN <<s>>
    ELSE <<SubSeq(s, 1, LineLength(s))>> \o Lines(Drop(s, LineLength(s) + 1))

\* two or more lines, each starting a list item
BulletLines(s) ==
    /\ Len(Lines(s)) >= 2
    /\ \A i \in DOMAIN Lines(s) :
          StartsWith(Lines(s)[i], <<"-", " ">>) \/ StartsWith(Lines(s)[i], <<Bullet, " ">>)

Count(s, token) == Cardinality({i \in DOMAIN s : s[i] = token})

\* C9: for consecutive lines that each begin with "- " or the bullet,
\* formatMessage yields one list holding one item per line.
C9_OneItemPerLine ==
    (call.fn = "formatMessage" /\ call.done /\ BulletLines(call.arg)) =>
        /\ Count(call.result, "<ul>") = 1
        /\ Count(call.result, "</ul>") = 1
        /\ Count(call.result, "<li>") = Len(Lines(call.arg))
        /\ Count(call.result, "</li>") = Len(Lines(call.arg))

\* C10: while a chat request is outstanding the send control is disabled,
\* and no second request is issued before the first has ended.
C10_OneRequestAtATime ==
    /\ chatRequests # {} => sendDisabled
    /\ Cardinality(chatRequests) <= 1

\* C11: the Translation Table holds whatever load resolved last: only the
\* answer to a translation fetch changes the table, and a successful answer
\* assigns the document of the language the fetch was issued for, whether or
\* not that language is still the current one.
C11_LastResolvedLoadWins ==
    [][/\ \A ld \in loads : loadTranslations(ld, "ok") => translations' = Doc(ld.lang)
       /\ translations' # translations =>
             \/ \E ld \in loads, outcome \in PrimaryOutcomes :
                   loadTranslations(ld, outcome)
             \/ \E ld \in loads, outcome \in FallbackOutcomes :
                   loadFallbackTranslations(ld, outcome)]_vars

\* no reload is pending, the table is the document of a language requested
\* earlier, and language, picker and persisted code are the latest request
C11_Witness ==
    /\ loads = {}
    /\ langCalls >= 1
    /\ currentLanguage = Last(storageWrites)
    /\ selectorValue = currentLanguage
    /\ storage = currentLanguage
    /\ \E lang \in Languages \ {currentLanguage} : translations = Doc(lang)

\* positions of transcript' that the step has added
Appended == {i \in DOMAIN transcript' : i > Len(transcript)}

\* C12: the transcript is append-only: every step leaves the earlier
\* transcript as a prefix of the later one; and an assistant entry is
\* appended only after the user entry of the send it answers.
C12_AppendOnlyUserFirst ==
    [][/\ Len(transcript') >= Len(transcript)
       /\ SubSeq(transcript', 1, Len(transcript)) = transcript
       /\ \A i \in Appended :
             transcript'[i].sender = "assistant" =>
                \E j \in DOMAIN transcript :
                   /\ transcript[j].sender = "user"
                   /\ transcript[j].sid = transcript'[i].sid]_vars

\* two sends have been answered, one with an error entry
C12_Witness ==
    /\ Len(transcript) = 4
    /\ \E i \in DOMAIN transcript : transcript[i].isError
    /\ \E i \in DOMAIN transcript :
          transcript[i].sender = "assistant" /\ ~transcript[i].isError

\* the send control is enabled only if the controller is connected and the
\* trimmed input is not empty
SendEnabledOnlyIfEligible ==
    ~sendDisabled => (isConnected /\ Trim(inputValue) # <<>>)

\* C13: every input event, every health-check completion and every send
\* that passes the guard leaves the send control enabled only if connectivity
\* is Connected and the trimmed input is non-empty, and every later step of
\* any kind keeps it so; hence the control is disabled whenever the
\* controller is disconnected.
C13_SendEnabledOnlyIfEligible ==
    [][(\/ SendEnabledOnlyIfEligible
        \/ \E value \in InputValues : inputListener(value)
        \/ \E data \in HealthOutcomes : checkHealth(data)
        \/ (SendGuard /\ \E via \in {"click", "enter"} : sendMessage(via)))
       => SendEnabledOnlyIfEligible']_vars

\* the health check reported Disconnected, the user has typed text, and the
\* send control is disabled
C13_Witness ==
    /\ constructed /\ ~healthPending /\ ~isConnected
    /\ Trim(inputValue) # <<>>
    /\ sendDisabled
    /\ earlyReturn = "none"

\* C14: the connectivity flag changes only in the step that completes the
\* health check.
C14_OnlyHealthCheckChangesConnectivity ==
    [][isConnected' # isConnected => \E data \in HealthOutcomes : checkHealth(data)]_vars

\* connected, after a chat request failed, a mode change and a language change
C14_Witness ==
    /\ isConnected
    /\ \E a \in answers : ~a.ok
    /\ currentMode = "gita"
    /\ langCalls >= 1

\* C15: when the fetch for the current language has failed, a successful
\* fallback fetch replaces the Translation Table by the en document, and a
\* failed one (non-success status or transport failure) leaves the table
\* exactly as it was.
C15_FailedFallbackKeepsTable ==
    [][\A ld \in loads :
          /\ loadFallbackTranslations(ld, "ok") => translations' = Doc("en")
          /\ \A outcome \in FallbackOutcomes \ {"ok"} :
                loadFallbackTranslations(ld, outcome) => translations' = translations]_vars

\* C16: once the initial translation load has settled successfully with the
\* controller constructed, a language-change event has been broadcast and
\* the input placeholder is the translation of app.placeholders.<mode>.
C16_InitialLoadRefreshesPlaceholder ==
    (/\ constructed
     /\ langCalls = 0
     /\ loads = {}
     /\ translations = Doc(currentLanguage))
    => /\ events # <<>>
       /\ placeholder = Leaf(currentLanguage, currentMode).val

\* C17: the crisis affordance, once shown, is hidden only by the close
\* control or a click on the backdrop; it is surfaced only by the crisis
\* button or by a chat response that flags a crisis, and a response without
\* the flag leaves it as it was.
C17_CrisisPersistsUntilDismissed ==
    [][/\ (crisisShown /\ ~crisisShown') =>
             \E target \in {"close", "backdrop"} : hideCrisisModal(target)
       /\ (~crisisShown /\ crisisShown') =>
             \/ showCrisisModal
             \/ \E req \in chatRequests, response \in Responses :
                   chatSucceeded(req, response, TRUE)
       /\ \A req \in chatRequests, response \in Responses :
             chatSucceeded(req, response, FALSE) => crisisShown' = crisisShown]_vars

\* the affordance is on screen after a response without the flag, a failed
\* request, a mode change and a completed health check
C17_Witness ==
    /\ crisisShown
    /\ \E a \in answers : a.ok
    /\ \E a \in answers : ~a.ok
    /\ chatRequests = {}
    /\ currentMode = "gita"
    /\ ~healthPending

\* C18: setMode makes its argument the current mode and leaves exactly the
\* matching control with the active marker; no other step changes the mode
\* or the markers; and a chat request carries the mode that was current when
\* it was issued, whatever requests are still outstanding.
C18_OneActiveMode ==
    [][/\ \A mode \in Modes :
             setMode(mode) => (currentMode' = mode /\ activeButtons' = {mode})
       /\ (currentMode' # currentMode \/ activeButtons' # activeButtons) =>
             \E mode \in Modes : setMode(mode)
       /\ \A req \in chatRequests' \ chatRequests : req.mode = currentMode]_vars

\* the mode was changed while a request was outstanding: the earlier request
\* carries the earlier mode, the later one the current mode
C18_Witness ==
    /\ currentMode = "gita"
    /\ activeButtons = {"gita"}
    /\ \E r1, r2 \in chatRequests :
          r1.id < r2.id /\ r1.mode = "normal" /\ r2.mode = "gita"

\* position of the user entry of the send sid
UserEntryOf(sid) ==
    CHOOSE i \in DOMAIN transcript :
        transcript[i].sender = "user" /\ transcript[i].sid = sid

\* C19: the assistant entries stand in the same relative order as the user
\* entries they answer.
C19_CompletionsInSendOrder ==
    \A i, j \in DOMAIN transcript :
        (/\ i < j
         /\ transcript[i].sender = "assistant"
         /\ transcript[j].sender = "assistant")
        => UserEntryOf(transcript[i].sid) < UserEntryOf(transcript[j].sid)

\* C20: the loading indicator is shown exactly while a chat request is
\* outstanding.
C20_LoadingIffOutstanding ==
    loadingShown <=> chatRequests # {}

\* positions of the assistant entries that answer the send sid
AssistantEntriesOf(sid) ==
    {i \in EntriesOf(sid) : transcript[i].sender = "assistant"}

\* every accepted send has exactly one assistant entry answering it, no
\* request is outstanding and the loading indicator is hidden
AtRest ==
    /\ \A id \in 1..sends : Cardinality(AssistantEntriesOf(id)) = 1
    /\ chatRequests = {}
    /\ ~loadingShown

\* C21: when every issued chat request ends, the session comes to rest again
\* and again: every accepted send is answered by exactly one assistant
\* entry (entries are never removed, so it never has more than one), no
\* request is outstanding and the loading indicator is hidden.
C21_EverySendAnswered == []<>AtRest

\* every send of the session has been accepted and answered, one by an error
\* entry, and the session is at rest
C21_Witness ==
    /\ sends = MaxRequests
    /\ \A id \in 1..MaxRequests : Cardinality(AssistantEntriesOf(id)) = 1
    /\ \E i \in DOMAIN transcript : transcript[i].isError
    /\ chatRequests = {}
    /\ ~loadingShown

====
